---- MODULE Spec2Model ----
(***************************************************************************)
(* Machine telemetry ETL / ML pipeline: schema initialisation, batch       *)
(* ingestion, the scheduled schema+ingest task, the feature-name fixer and *)
(* the two name-normalisation tables.                                      *)
(*                                                                         *)
(* Names (CSV columns, feature names) are sequences of one-character       *)
(* strings so that lowercasing and table lookup are computed, not assumed. *)
(***************************************************************************)
EXTENDS Integers, Sequences, FiniteSets, TLC

(* ---------------------------------------------------------------------- *)
(* Bounds of the model                                                     *)
(* ---------------------------------------------------------------------- *)
MaxNames == 2
MaxNameLen == 2
MaxRuns == 2
MaxFaulty == 2
MaxFeatures == 2
MaxTaskRuns == 2
MaxRows == 2
MaxNaN == 1
MaxMissingCols == 1
MaxDagRuns == 2
MaxReadings == 3
MaxGetDbCalls == 3
MaxFixRuns == 2

(* ---------------------------------------------------------------------- *)
(* Name tables (database_and_model_tools.py)                               *)
(* ---------------------------------------------------------------------- *)
column_mapping ==
       (<<"M","a","c","h","i","n","e","I","D">> :> <<"m","a","c","h","i","n","e","i","d">>)
    @@ (<<"T","y","p","e">> :> <<"t","y","p","e">>)
    @@ (<<"L","o","c","a","t","i","o","n">> :> <<"l","o","c","a","t","i","o","n">>)
    @@ (<<"T","i","m","e","s","t","a","m","p">> :> <<"t","i","m","e","s","t","a","m","p">>)
    @@ (<<"E","n","g","i","n","e","T","e","m","p","e","r","a","t","u","r","e">> :> <<"e","n","g","i","n","e","t","e","m","p","e","r","a","t","u","r","e">>)
    @@ (<<"F","u","e","l","C","o","n","s","u","m","p","t","i","o","n">> :> <<"f","u","e","l","c","o","n","s","u","m","p","t","i","o","n">>)
    @@ (<<"V","i","b","r","a","t","i","o","n","L","e","v","e","l">> :> <<"v","i","b","r","a","t","i","o","n","l","e","v","e","l">>)
    @@ (<<"H","u","m","i","d","i","t","y">> :> <<"h","u","m","i","d","i","t","y">>)
    @@ (<<"P","r","e","s","s","u","r","e">> :> <<"p","r","e","s","s","u","r","e">>)
    @@ (<<"P","o","w","e","r","O","u","t","p","u","t">> :> <<"p","o","w","e","r","o","u","t","p","u","t">>)
    @@ (<<"O","p","e","r","a","t","i","n","g","H","o","u","r","s">> :> <<"o","p","e","r","a","t","i","n","g","h","o","u","r","s">>)
    @@ (<<"S","t","a","t","u","s">> :> <<"s","t","a","t","u","s">>)
    @@ (<<"S","t","a","t","u","s","_","e","n","c","o","d","e","d">> :> <<"s","t","a","t","u","s","_","e","n","c","o","d","e","d">>)
    @@ (<<"T","i","m","e","s","t","a","m","p","_","e","p","o","c","h">> :> <<"t","i","m","e","s","t","a","m","p","_","e","p","o","c","h">>)
    @@ (<<"h","o","u","r">> :> <<"h","o","u","r">>)
    @@ (<<"d","a","y","o","f","w","e","e","k">> :> <<"d","a","y","o","f","w","e","e","k">>)
    @@ (<<"m","o","n","t","h">> :> <<"m","o","n","t","h">>)

(* variant: the entry for Hour is written the wrong way round *)
feature_mapping_flipped ==
       (<<"F","u","e","l","C","o","n","s","u","m","p","t","i","o","n">> :> <<"f","u","e","l","c","o","n","s","u","m","p","t","i","o","n">>)
    @@ (<<"V","i","b","r","a","t","i","o","n","L","e","v","e","l">> :> <<"v","i","b","r","a","t","i","o","n","l","e","v","e","l">>)
    @@ (<<"H","u","m","i","d","i","t","y">> :> <<"h","u","m","i","d","i","t","y">>)
    @@ (<<"P","r","e","s","s","u","r","e">> :> <<"p","r","e","s","s","u","r","e">>)
    @@ (<<"P","o","w","e","r","O","u","t","p","u","t">> :> <<"p","o","w","e","r","o","u","t","p","u","t">>)
    @@ (<<"O","p","e","r","a","t","i","n","g","H","o","u","r","s">> :> <<"o","p","e","r","a","t","i","n","g","h","o","u","r","s">>)
    @@ (<<"T","i","m","e","s","t","a","m","p","_","e","p","o","c","h">> :> <<"t","i","m","e","s","t","a","m","p","_","e","p","o","c","h">>)
    @@ (<<"h","o","u","r">> :> <<"H","o","u","r">>)
    @@ (<<"D","a","y","O","f","W","e","e","k">> :> <<"d","a","y","o","f","w","e","e","k">>)
    @@ (<<"M","o","n","t","h">> :> <<"m","o","n","t","h">>)

(* FeatureNamesFixer: self.feature_mapping *)
feature_mapping ==
       (<<"F","u","e","l","C","o","n","s","u","m","p","t","i","o","n">> :> <<"f","u","e","l","c","o","n","s","u","m","p","t","i","o","n">>)
    @@ (<<"V","i","b","r","a","t","i","o","n","L","e","v","e","l">> :> <<"v","i","b","r","a","t","i","o","n","l","e","v","e","l">>)
    @@ (<<"H","u","m","i","d","i","t","y">> :> <<"h","u","m","i","d","i","t","y">>)
    @@ (<<"P","r","e","s","s","u","r","e">> :> <<"p","r","e","s","s","u","r","e">>)
    @@ (<<"P","o","w","e","r","O","u","t","p","u","t">> :> <<"p","o","w","e","r","o","u","t","p","u","t">>)
    @@ (<<"O","p","e","r","a","t","i","n","g","H","o","u","r","s">> :> <<"o","p","e","r","a","t","i","n","g","h","o","u","r","s">>)
    @@ (<<"T","i","m","e","s","t","a","m","p","_","e","p","o","c","h">> :> <<"t","i","m","e","s","t","a","m","p","_","e","p","o","c","h">>)
    @@ (<<"H","o","u","r">> :> <<"h","o","u","r">>)
    @@ (<<"D","a","y","O","f","W","e","e","k">> :> <<"d","a","y","o","f","w","e","e","k">>)
    @@ (<<"M","o","n","t","h">> :> <<"m","o","n","t","h">>)

required_columns ==
    << <<"m","a","c","h","i","n","e","i","d">>,
       <<"t","y","p","e">>,
       <<"l","o","c","a","t","i","o","n">>,
       <<"t","i","m","e","s","t","a","m","p">>,
       <<"e","n","g","i","n","e","t","e","m","p","e","r","a","t","u","r","e">>,
       <<"f","u","e","l","c","o","n","s","u","m","p","t","i","o","n">>,
       <<"v","i","b","r","a","t","i","o","n","l","e","v","e","l">>,
       <<"h","u","m","i","d","i","t","y">>,
       <<"p","r","e","s","s","u","r","e">>,
       <<"p","o","w","e","r","o","u","t","p","u","t">>,
       <<"o","p","e","r","a","t","i","n","g","h","o","u","r","s">>,
       <<"s","t","a","t","u","s">>,
       <<"s","t","a","t","u","s","_","e","n","c","o","d","e","d">>,
       <<"t","i","m","e","s","t","a","m","p","_","e","p","o","c","h">>,
       <<"h","o","u","r">>,
       <<"d","a","y","o","f","w","e","e","k">>,
       <<"m","o","n","t","h">> >>

fill_values ==
       (<<"e","n","g","i","n","e","t","e","m","p","e","r","a","t","u","r","e">> :> "75.0")
    @@ (<<"f","u","e","l","c","o","n","s","u","m","p","t","i","o","n">> :> "10.0")
    @@ (<<"v","i","b","r","a","t","i","o","n","l","e","v","e","l">> :> "3.0")
    @@ (<<"h","u","m","i","d","i","t","y">> :> "65.0")
    @@ (<<"p","r","e","s","s","u","r","e">> :> "950.0")
    @@ (<<"p","o","w","e","r","o","u","t","p","u","t">> :> "200.0")
    @@ (<<"o","p","e","r","a","t","i","n","g","h","o","u","r","s">> :> "0.0")
    @@ (<<"s","t","a","t","u","s">> :> "Unknown")


(* str.lower() restricted to ASCII letters *)
UpperChars == <<"A","B","C","D","E","F","G","H","I","J","K","L","M",
                "N","O","P","Q","R","S","T","U","V","W","X","Y","Z">>

LowerChars == <<"a","b","c","d","e","f","g","h","i","j","k","l","m",
                "n","o","p","q","r","s","t","u","v","w","x","y","z">>

lower_char(c) ==
    IF \E j \in 1..Len(UpperChars) : UpperChars[j] = c
    THEN LowerChars[CHOOSE j \in 1..Len(UpperChars) : UpperChars[j] = c]
    ELSE c

str_lower(s) == [i \in 1..Len(s) |-> lower_char(s[i])]

(* dict.get(key, default) *)
dict_get(d, k, default) == IF k \in DOMAIN d THEN d[k] ELSE default


(* variant: the fallback keeps the name as it is *)
translate_name_keep(f) == dict_get(feature_mapping, f, f)

(* FeatureNamesFixer: self.feature_mapping.get(f, f.lower()) *)
translate_name(f) == dict_get(feature_mapping, f, str_lower(f))

(* [self.feature_mapping.get(f, f.lower()) for f in original] *)
translate(original) == [i \in 1..Len(original) |-> translate_name(original[i])]

(* DataIngestor._convert_column_names: column_mapping.get(col, col.lower()) *)
convert_column_name(col) == dict_get(column_mapping, col, str_lower(col))

(* names used as inputs *)
FuelConsumption == <<"F","u","e","l","C","o","n","s","u","m","p","t","i","o","n">>

Unknown_X == <<"U","n","k","n","o","w","n","_","X">>

(* no artifact handled yet *)
NoArtifact == [id |-> 0, exists |-> FALSE, loads |-> FALSE, has_names |-> FALSE,
               writable |-> FALSE, dump_ok |-> FALSE, names |-> <<>>,
               ok |-> FALSE, raised |-> FALSE, dumped |-> FALSE, stored |-> <<>>]

(* ---------------------------------------------------------------------- *)
(* State                                                                   *)
(* ---------------------------------------------------------------------- *)
VARIABLES
    pc,            \* control point of the running operation
    db_instance,   \* db.py _db_instance: "None" or "Database"
    db,            \* database and the connection's open transaction
    faulty,        \* schema statements the database rejects on every attempt
    stmt,          \* init_db: position in queries + index_queries (1..10)
    executed,      \* init_db: statements attempted by the current run, in order
    warned,        \* init_db: statements whose failure was logged as a warning
    rolled,        \* init_db: statements whose failure was rolled back
    escaped,       \* init_db: an exception left init_db
    sch_runs,      \* number of init_db runs started
    first_end,     \* schema at the end of the first init_db run
    sch_ret,       \* where init_db returns to
    names,         \* translation: the input list of names
    new_features,  \* translation: FeatureNamesFixer's new_features
    df_columns,    \* translation: DataIngestor's renamed columns
    tr_done,       \* translation: which of the two have run
    file,          \* the CSV file: exists, readable, header, rows
    df,            \* ingest_csv: the DataFrame after renaming and cleaning
    rows,          \* _insert_rows: the tuples handed to execute_values
    sent,          \* execute_values: rows the database has taken so far
    outcome,       \* ingest_csv: "none", "returned" or "raised"
    count,         \* ingest_csv: the returned row count
    ins_commits,   \* _insert_rows: conn.commit() calls of the current call
    ins_rollbacks, \* _insert_rows: conn.rollback() calls of the current call
    before,        \* telemetry rows stored when ingest_csv was entered
    ing_ret,       \* where ingest_csv returns to
    task_runs,     \* task_init_database: invocations started
    task_state,    \* task_init_database: "none", "running", "success", "failed"
    fatal,         \* fatal failure met by the current invocation, or "none"
    after_first,   \* telemetry rows at the end of the first invocation
    fix_idx,       \* fix_all_models: next artifact (1..9), 0 before the call
    results,       \* fix_all_models: the results dict built so far
    last,          \* the artifact handled by the latest fix_* call
    scaler_file,   \* ScalerTester: what is found at scaler_path
    features_dict, \* ScalerTester: the features_dict argument
    feature_vector,\* ScalerTester: the row handed to scaler.transform
    scaled_log,    \* ScalerTester: the scaled[0] written to the log
    st_result,     \* ScalerTester: what test_scaler_with_real_data gave back
    dag_runs,      \* scheduler: the DAG runs, their state and their task instances
    fac_call,      \* query facade: the operation called and its argument
    fac_rows,      \* query facade: the list the operation returned
    fac_raised,    \* query facade: the operation raised to its caller
    fac_failed,    \* query facade: execute_query failed inside the operation
    sg_obj,        \* get_db: identity of the object _db_instance holds, 0 for None
    sg_made,       \* get_db: number of Database objects constructed so far
    sg_connected,  \* get_db: the objects whose connect succeeded
    sg_logged,     \* get_db: number of connection errors logged
    sg_got,        \* get_db: per call, the caller and the object it got, 0 if it raised
    disk,          \* fixer: the artifact found at each of the eight paths
    tw_runs,       \* fixer: number of fix_all_models runs over disk so far
    tw_reports,    \* fixer: what each of these runs returned
    tw_disk0,      \* fixer: disk before the first run
    tw_disk1       \* fixer: disk after the first run

schVars == <<stmt, executed, warned, rolled, escaped, sch_runs, first_end, sch_ret>>

trVars == <<names, new_features, df_columns, tr_done>>

ingVars == <<file, df, rows, sent, outcome, count, ins_commits, ins_rollbacks, before, ing_ret>>

taskVars == <<task_runs, task_state, fatal, after_first>>

fixVars == <<fix_idx, results, last>>

oldVars == <<db_instance, db, faulty, schVars, trVars, ingVars, taskVars, fixVars>>

stVars == <<scaler_file, features_dict, feature_vector, scaled_log, st_result>>

dagVars == <<dag_runs>>

facVars == <<fac_call, fac_rows, fac_raised, fac_failed>>

sgVars == <<sg_obj, sg_made, sg_connected, sg_logged, sg_got>>

twVars == <<disk, tw_runs, tw_reports, tw_disk0, tw_disk1>>

extVars == <<stVars, dagVars, facVars, sgVars, twVars>>

(* everything but one component's variables *)
exceptSt == <<oldVars, dagVars, facVars, sgVars, twVars>>

exceptDag == <<oldVars, stVars, facVars, sgVars, twVars>>

exceptTw == <<oldVars, stVars, dagVars, facVars, sgVars>>

(* what a facade operation leaves alone: all but the connection's state *)
exceptFac == <<db_instance, faulty, schVars, trVars, ingVars, taskVars, fixVars,
               stVars, dagVars, sgVars, twVars>>

(* what get_db leaves alone: all but the module global _db_instance *)
exceptSg == <<db, faulty, schVars, trVars, ingVars, taskVars, fixVars,
              stVars, dagVars, facVars, twVars>>

vars == <<pc, oldVars, extVars>>

(* ---------------------------------------------------------------------- *)
(* Database.init_db and Database.execute_query (db.py)                     *)
(* ---------------------------------------------------------------------- *)
TableNames == {"telemetry", "user_query_log", "predictions"}

IndexNames == {"idx_telemetry_machine_id", "idx_telemetry_timestamp_epoch",
               "idx_telemetry_ts_epoch", "idx_query_log_epoch",
               "idx_predictions_epoch", "idx_telemetry_composite"}

(* CREATE TABLE IF NOT EXISTS ... ; words are the query's leading tokens *)
queries ==
    << [words |-> <<"CREATE","TABLE","IF","NOT","EXISTS">>, kind |-> "table",
        obj |-> "telemetry", on |-> "telemetry"],
       [words |-> <<"CREATE","TABLE","IF","NOT","EXISTS">>, kind |-> "table",
        obj |-> "user_query_log", on |-> "user_query_log"],
       [words |-> <<"CREATE","TABLE","IF","NOT","EXISTS">>, kind |-> "table",
        obj |-> "predictions", on |-> "predictions"] >>

(* CREATE INDEX IF NOT EXISTS <obj> ON <on>(...) *)
index_queries ==
    << [words |-> <<"CREATE","INDEX","IF","NOT","EXISTS">>, kind |-> "index",
        obj |-> "idx_telemetry_machine_id", on |-> "telemetry"],
       [words |-> <<"CREATE","INDEX","IF","NOT","EXISTS">>, kind |-> "index",
        obj |-> "idx_telemetry_timestamp_epoch", on |-> "telemetry"],
       [words |-> <<"CREATE","INDEX","IF","NOT","EXISTS">>, kind |-> "index",
        obj |-> "idx_telemetry_ts_epoch", on |-> "telemetry"],
       [words |-> <<"CREATE","INDEX","IF","NOT","EXISTS">>, kind |-> "index",
        obj |-> "idx_query_log_epoch", on |-> "user_query_log"],
       [words |-> <<"CREATE","INDEX","IF","NOT","EXISTS">>, kind |-> "index",
        obj |-> "idx_predictions_epoch", on |-> "predictions"],
       [words |-> <<"CREATE","INDEX","IF","NOT","EXISTS">>, kind |-> "index",
        obj |-> "idx_telemetry_composite", on |-> "telemetry"] >>


(* variant: the index loop runs before the table loop *)
Statements_indexes_first == index_queries \o queries

(* the two loops of init_db run over queries, then index_queries *)
Statements == queries \o index_queries

NumStatements == Len(Statements)

(* verify_database_setup: SELECT COUNT as count FROM <t> *)
count_query(t) ==
    [words |-> <<"SELECT","COUNT","AS","COUNT","FROM">>, kind |-> "select",
     obj |-> t, on |-> t]

(* execute_query: startswith('SELECT') or startswith('WITH')
   or 'SELECT' in normalized_query.split()[0:3] *)
is_select_query(words) ==
    \/ words[1] = "SELECT"
    \/ words[1] = "WITH"
    \/ \E i \in 1..3 : i <= Len(words) /\ words[i] = "SELECT"

(* conn.commit(): the open transaction becomes durable *)
conn_commit(d) ==
    [d EXCEPT !.tables = @ \cup (d.txn \cap TableNames),
              !.indexes = @ \cup (d.txn \cap IndexNames),
              !.telemetry = @ \o d.pending,
              !.txn = {},
              !.pending = <<>>]

(* conn.rollback(): the open transaction is discarded *)
conn_rollback(d) == [d EXCEPT !.txn = {}, !.pending = <<>>]

(* objects visible to the connection: committed ones and its own uncommitted *)
visible(d) == d.tables \cup d.indexes \cup d.txn

(* cursor.execute(query) raises: the statement is one the database rejects,
   or it names a table that does not exist *)
cursor_execute_fails(q, d, bad) ==
    \/ q.kind # "select" /\ q.obj \in bad
    \/ q.kind \in {"index", "select"} /\ q.on \notin visible(d)

(* cursor.execute(query) succeeds: CREATE ... IF NOT EXISTS adds the object
   to the open transaction unless it is already there *)
cursor_execute(q, d) ==
    IF q.kind \in {"table", "index"} /\ q.obj \notin visible(d)
    THEN [d EXCEPT !.txn = @ \cup {q.obj}]
    ELSE d

(* Database.execute_query: result state, whether it raised, whether it
   rolled back *)
execute_query(q, d, bad) ==
    IF cursor_execute_fails(q, d, bad)
    THEN [db |-> conn_rollback(d), raised |-> TRUE, rolled |-> TRUE]
    ELSE IF is_select_query(q.words)
         THEN [db |-> cursor_execute(q, d), raised |-> FALSE, rolled |-> FALSE]
         ELSE [db |-> conn_commit(cursor_execute(q, d)), raised |-> FALSE,
               rolled |-> FALSE]


(* variant: the failure of a statement is not caught *)
init_db_on_error_raise == "raise"

(* init_db: "except Exception ... continue" around each execute_query *)
init_db_on_error == "continue"

Schema(d) == [tables |-> d.tables, indexes |-> d.indexes]

(* a caller enters init_db *)
InitDbEnter(ret) ==
    /\ stmt' = 1
    /\ executed' = <<>>
    /\ warned' = {}
    /\ rolled' = {}
    /\ escaped' = FALSE
    /\ sch_runs' = sch_runs + 1
    /\ sch_ret' = ret
    /\ UNCHANGED first_end

(* one iteration of "for query in queries" / "for query in index_queries" *)
InitDbStep ==
    /\ pc = "init_db"
    /\ stmt <= NumStatements
    /\ LET r == execute_query(Statements[stmt], db, faulty) IN
         /\ db' = r.db
         /\ executed' = Append(executed, stmt)
         /\ rolled' = IF r.rolled THEN rolled \cup {stmt} ELSE rolled
         /\ IF r.raised /\ init_db_on_error # "continue"
            THEN /\ escaped' = TRUE
                 /\ pc' = sch_ret
                 /\ UNCHANGED <<stmt, warned>>
            ELSE /\ warned' = IF r.raised THEN warned \cup {stmt} ELSE warned
                 /\ stmt' = stmt + 1
                 /\ UNCHANGED <<pc, escaped>>
    /\ UNCHANGED <<db_instance, faulty, sch_runs, sch_ret, first_end>>
    /\ UNCHANGED <<trVars, ingVars, taskVars, fixVars>>
    /\ UNCHANGED extVars

(* init_db returns after the last index query *)
InitDbReturn ==
    /\ pc = "init_db"
    /\ stmt = NumStatements + 1
    /\ pc' = sch_ret
    /\ first_end' = IF sch_runs = 1 THEN Schema(db) ELSE first_end
    /\ UNCHANGED <<db_instance, db, faulty>>
    /\ UNCHANGED <<stmt, executed, warned, rolled, escaped, sch_runs, sch_ret>>
    /\ UNCHANGED <<trVars, ingVars, taskVars, fixVars>>
    /\ UNCHANGED extVars

(* get_db().init_db() called on its own *)
InitDbCall ==
    /\ pc = "idle"
    /\ sch_runs < MaxRuns
    /\ pc' = "init_db"
    /\ InitDbEnter("idle")
    /\ UNCHANGED <<db_instance, db, faulty>>
    /\ UNCHANGED <<trVars, ingVars, taskVars, fixVars>>
    /\ UNCHANGED extVars

(* ---------------------------------------------------------------------- *)
(* DataIngestor (database_and_model_tools.py)                              *)
(* A DataFrame is a sequence of rows; a row is a function from column      *)
(* names to cells; "NaN" is the missing cell of pandas, "None" is Python's *)
(* None.                                                                   *)
(* ---------------------------------------------------------------------- *)

(* df.rename(columns={col: f(col)}) on one row *)
rename_columns(row, f(_)) ==
    [n \in { f(c) : c \in DOMAIN row } |->
        row[CHOOSE c \in DOMAIN row : f(c) = n]]

(* _convert_column_names *)
convert_column_names(frame) ==
    [k \in 1..Len(frame) |-> rename_columns(frame[k], convert_column_name)]

(* df.fillna({...}) on one row: only the columns the dict names are filled *)
fillna(row) ==
    [c \in DOMAIN row |->
        IF row[c] = "NaN" /\ c \in DOMAIN fill_values THEN fill_values[c]
        ELSE row[c]]


(* variant: the columns are lowercased but nothing is filled *)
clean_dataframe_no_fill(frame) ==
    [k \in 1..Len(frame) |-> rename_columns(frame[k], str_lower)]

(* _clean_dataframe: fillna, then the columns are lowercased *)
clean_dataframe(frame) ==
    [k \in 1..Len(frame) |-> rename_columns(fillna(frame[k]), str_lower)]

(* _insert_rows: tuple(row.get(c, None) for c in self.required_columns) *)
row_values(row) ==
    [i \in 1..Len(required_columns) |->
        dict_get(row, required_columns[i], "None")]


(* variant: the handler commits what the failed insert left in the
   transaction *)
insert_rows_on_error_commit(d) == conn_commit(d)

(* _insert_rows: "except Exception: ... self.db.conn.rollback(); raise" *)
insert_rows_on_error(d) == conn_rollback(d)

(* a caller enters ingest_csv *)
IngestEnter(ret) ==
    /\ df' = <<>>
    /\ rows' = <<>>
    /\ sent' = 0
    /\ outcome' = "none"
    /\ count' = 0
    /\ ins_commits' = 0
    /\ ins_rollbacks' = 0
    /\ before' = db.telemetry
    /\ ing_ret' = ret

(* ingest_csv: pd.read_csv, _convert_column_names, _clean_dataframe; a
   failure is logged and re-raised by ingest_csv *)
ReadCsv ==
    /\ pc = "read_csv"
    /\ IF file.exists /\ file.readable
       THEN /\ df' = clean_dataframe(convert_column_names(file.rows))
            /\ pc' = "insert_rows"
            /\ UNCHANGED <<outcome, fatal>>
       ELSE /\ outcome' = "raised"
            /\ fatal' = "unreadable"
            /\ pc' = ing_ret
            /\ UNCHANGED df
    /\ UNCHANGED <<db_instance, db, faulty, file, rows, sent, count>>
    /\ UNCHANGED <<ins_commits, ins_rollbacks, before, ing_ret>>
    /\ UNCHANGED <<task_runs, task_state, after_first>>
    /\ UNCHANGED <<schVars, trVars, fixVars>>
    /\ UNCHANGED extVars

(* _insert_rows: the loop over df.iterrows() that builds the tuples *)
BuildRows ==
    /\ pc = "insert_rows"
    /\ rows' = [k \in 1..Len(df) |-> row_values(df[k])]
    /\ pc' = "execute_values"
    /\ UNCHANGED <<db_instance, db, faulty, file, df, sent, outcome, count>>
    /\ UNCHANGED <<ins_commits, ins_rollbacks, before, ing_ret>>
    /\ UNCHANGED <<schVars, trVars, taskVars, fixVars>>
    /\ UNCHANGED extVars

(* execute_values: the database takes the next row of the VALUES list into
   the open transaction *)
ExecuteValuesRow ==
    /\ pc = "execute_values"
    /\ sent < Len(rows)
    /\ "telemetry" \in visible(db)
    /\ db' = [db EXCEPT !.pending = Append(@, rows[sent + 1])]
    /\ sent' = sent + 1
    /\ UNCHANGED <<pc, db_instance, faulty, file, df, rows, outcome, count>>
    /\ UNCHANGED <<ins_commits, ins_rollbacks, before, ing_ret>>
    /\ UNCHANGED <<schVars, trVars, taskVars, fixVars>>
    /\ UNCHANGED extVars

(* _insert_rows: conn.commit() after execute_values, return len(rows);
   ingest_csv returns the count *)
InsertCommit ==
    /\ pc = "execute_values"
    /\ sent = Len(rows)
    /\ db' = conn_commit(db)
    /\ ins_commits' = ins_commits + 1
    /\ count' = Len(rows)
    /\ outcome' = "returned"
    /\ pc' = ing_ret
    /\ UNCHANGED <<db_instance, faulty, file, df, rows, sent>>
    /\ UNCHANGED <<ins_rollbacks, before, ing_ret>>
    /\ UNCHANGED <<schVars, trVars, taskVars, fixVars>>
    /\ UNCHANGED extVars

(* _insert_rows: execute_values or commit raises (the table is missing, the
   database rejects a row, the connection drops); the handler rolls back and
   re-raises, ingest_csv logs and re-raises *)
InsertRowsExcept ==
    /\ pc = "execute_values"
    /\ db' = insert_rows_on_error(db)
    /\ ins_rollbacks' = ins_rollbacks + 1
    /\ outcome' = "raised"
    /\ fatal' = "insert"
    /\ pc' = ing_ret
    /\ UNCHANGED <<db_instance, faulty, file, df, rows, sent, count>>
    /\ UNCHANGED <<ins_commits, before, ing_ret>>
    /\ UNCHANGED <<task_runs, task_state, after_first>>
    /\ UNCHANGED <<schVars, trVars, fixVars>>
    /\ UNCHANGED extVars

(* DataIngestor().ingest_csv(path) called on its own *)
IngestCall ==
    /\ pc = "idle"
    /\ outcome = "none"
    /\ pc' = "read_csv"
    /\ IngestEnter("ingested")
    /\ UNCHANGED <<db_instance, db, faulty, file>>
    /\ UNCHANGED <<schVars, trVars, taskVars, fixVars>>
    /\ UNCHANGED extVars

(* ---------------------------------------------------------------------- *)
(* task_init_database (db_pipeline_dag.py) and                             *)
(* DatabaseInitializer.setup_complete_database                             *)
(* ---------------------------------------------------------------------- *)

(* setup_complete_database: "except Exception as e: logger.error(...)" *)
setup_on_error == "log"

(* the callable returns or raises to the scheduler *)
TaskEnd(state, d) ==
    /\ task_state' = state
    /\ pc' = "idle"
    /\ after_first' = IF task_runs = 1
                      THEN [telemetry |-> d.telemetry, fatal |-> fatal']
                      ELSE after_first

(* the scheduler invokes task_init_database, in the worker process of the
   previous invocation or in a new one *)
TaskStart ==
    /\ pc = "idle"
    /\ task_runs < MaxTaskRuns
    /\ task_runs' = task_runs + 1
    /\ task_state' = "running"
    /\ fatal' = "none"
    /\ \E process \in {"same", "new"} :
          db_instance' = IF process = "new" THEN "None" ELSE db_instance
    /\ pc' = "get_db"
    /\ UNCHANGED <<db, faulty, after_first>>
    /\ UNCHANGED <<schVars, trVars, ingVars, fixVars>>
    /\ UNCHANGED extVars

(* DatabaseInitializer(): get_db() builds the Database on first use;
   Database.connect logs and re-raises a connection failure, which leaves
   task_init_database *)
GetDb ==
    /\ pc = "get_db"
    /\ IF db_instance = "None"
       THEN \E connected \in BOOLEAN :
              IF connected
              THEN /\ db_instance' = "Database"
                   /\ pc' = "setup"
                   /\ UNCHANGED <<task_state, fatal, after_first>>
              ELSE /\ fatal' = "connection"
                   /\ TaskEnd("failed", db)
                   /\ UNCHANGED db_instance
       ELSE /\ pc' = "setup"
            /\ UNCHANGED <<db_instance, task_state, fatal, after_first>>
    /\ UNCHANGED <<db, faulty, task_runs>>
    /\ UNCHANGED <<schVars, trVars, ingVars, fixVars>>
    /\ UNCHANGED extVars

(* setup_complete_database: self.db.init_db() *)
SetupInitDb ==
    /\ pc = "setup"
    /\ pc' = "init_db"
    /\ InitDbEnter("csv_exists")
    /\ UNCHANGED <<db_instance, db, faulty>>
    /\ UNCHANGED <<trVars, ingVars, taskVars, fixVars>>
    /\ UNCHANGED extVars

(* setup_complete_database: if csv_file_path and os.path.exists(...) *)
CsvExists ==
    /\ pc = "csv_exists"
    /\ IF escaped
       THEN /\ fatal' = "schema"
            /\ TaskEnd(IF setup_on_error = "log" THEN "success" ELSE "failed", db)
            /\ UNCHANGED <<df, rows, sent, outcome, count, ins_commits>>
            /\ UNCHANGED <<ins_rollbacks, before, ing_ret>>
       ELSE IF file.exists
            THEN /\ pc' = "read_csv"
                 /\ IngestEnter("ingest_ret")
                 /\ UNCHANGED <<task_state, fatal, after_first>>
            ELSE /\ pc' = "verify"
                 /\ UNCHANGED <<df, rows, sent, outcome, count, ins_commits>>
                 /\ UNCHANGED <<ins_rollbacks, before, ing_ret>>
                 /\ UNCHANGED <<task_state, fatal, after_first>>
    /\ UNCHANGED <<db_instance, db, faulty, file, task_runs>>
    /\ UNCHANGED <<schVars, trVars, fixVars>>
    /\ UNCHANGED extVars

(* setup_complete_database: ingest_csv returned, or raised into the except
   clause, which logs the error and lets the function return *)
IngestReturn ==
    /\ pc = "ingest_ret"
    /\ IF outcome = "raised"
       THEN /\ UNCHANGED fatal
            /\ TaskEnd(IF setup_on_error = "log" THEN "success" ELSE "failed", db)
       ELSE /\ pc' = "verify"
            /\ UNCHANGED <<task_state, fatal, after_first>>
    /\ UNCHANGED <<db_instance, db, faulty, task_runs>>
    /\ UNCHANGED <<schVars, trVars, ingVars, fixVars>>
    /\ UNCHANGED extVars

(* verify_database_setup: a count query per table, each failure caught and
   logged as a warning; then setup_complete_database returns *)
verify_database_setup(d, bad) ==
    LET d1 == execute_query(count_query("telemetry"), d, bad).db
        d2 == execute_query(count_query("user_query_log"), d1, bad).db
    IN  execute_query(count_query("predictions"), d2, bad).db

Verify ==
    /\ pc = "verify"
    /\ db' = verify_database_setup(db, faulty)
    /\ UNCHANGED fatal
    /\ TaskEnd("success", db')
    /\ UNCHANGED <<db_instance, faulty, task_runs>>
    /\ UNCHANGED <<schVars, trVars, ingVars, fixVars>>
    /\ UNCHANGED extVars

(* feature-name lists of artifacts: up to MaxFeatures names *)
FeatureNames == { FuelConsumption, Unknown_X, <<"h","o","u","r">> }

FeatureLists == UNION { [1..n -> FeatureNames] : n \in 1..MaxFeatures }

(* what fix_* can find at a path *)
ArtifactFiles ==
    { [exists |-> FALSE, loads |-> FALSE, has_names |-> FALSE,
       writable |-> FALSE, dump_ok |-> FALSE, names |-> <<>>],
      [exists |-> TRUE, loads |-> FALSE, has_names |-> FALSE,
       writable |-> FALSE, dump_ok |-> FALSE, names |-> <<>>],
      [exists |-> TRUE, loads |-> TRUE, has_names |-> FALSE,
       writable |-> FALSE, dump_ok |-> TRUE, names |-> <<>>] }
    \cup
    { [exists |-> TRUE, loads |-> TRUE, has_names |-> TRUE, writable |-> w,
       dump_ok |-> d, names |-> n] :
        w \in BOOLEAN, d \in BOOLEAN, n \in FeatureLists }

(* ---------------------------------------------------------------------- *)
(* FeatureNamesFixer (database_and_model_tools.py)                         *)
(* An artifact file is described by: exists (os.path.exists), loads        *)
(* (joblib.load returns), has_names (hasattr feature_names_in_), writable  *)
(* (the attribute accepts assignment), dump_ok (joblib.dump returns) and   *)
(* names (its feature_names_in_).                                          *)
(* ---------------------------------------------------------------------- *)

(* self.model_paths, in insertion order *)
model_paths ==
    <<"regression", "classification_fault_idle",
      "classification_active_maint", "anomaly">>

(* the keys fix_all_models writes, in the order it writes them *)
ResultKeys ==
    [i \in 1..(2 * Len(model_paths)) |->
        IF i % 2 = 1 THEN <<model_paths[(i + 1) \div 2], "_model">>
        ELSE <<model_paths[i \div 2], "_scaler">>]

(* fix_model_features: what it returns, whether it raised, whether
   joblib.dump rewrote the file, and the names the file holds afterwards *)
fix_model_features(a) ==
    IF ~ a.exists
    THEN [ok |-> FALSE, raised |-> FALSE, dumped |-> FALSE, stored |-> a.names]
    ELSE IF ~ a.loads
    THEN [ok |-> FALSE, raised |-> FALSE, dumped |-> FALSE, stored |-> a.names]
    ELSE IF ~ a.has_names
    THEN [ok |-> TRUE, raised |-> FALSE, dumped |-> FALSE, stored |-> a.names]
    ELSE LET new_names == translate(a.names)
             in_memory == IF a.writable THEN new_names ELSE a.names
         IN  IF a.dump_ok
             THEN [ok |-> TRUE, raised |-> FALSE, dumped |-> TRUE,
                   stored |-> in_memory]
             ELSE [ok |-> TRUE, raised |-> FALSE, dumped |-> FALSE,
                   stored |-> a.names]


(* variant: joblib.load sits outside the try block *)
fix_scaler_features_unguarded(a) ==
    IF a.exists /\ ~ a.loads
    THEN [ok |-> FALSE, raised |-> TRUE, dumped |-> FALSE, stored |-> a.names]
    ELSE IF ~ a.exists \/ ~ a.has_names \/ ~ a.writable \/ ~ a.dump_ok
    THEN [ok |-> a.exists /\ ~ a.has_names, raised |-> FALSE,
          dumped |-> FALSE, stored |-> a.names]
    ELSE [ok |-> TRUE, raised |-> FALSE, dumped |-> TRUE,
          stored |-> translate(a.names)]

(* fix_scaler_features: the assignment and the dump are guarded only by the
   outer "except Exception: ... return False" *)
fix_scaler_features(a) ==
    IF ~ a.exists
    THEN [ok |-> FALSE, raised |-> FALSE, dumped |-> FALSE, stored |-> a.names]
    ELSE IF ~ a.loads
    THEN [ok |-> FALSE, raised |-> FALSE, dumped |-> FALSE, stored |-> a.names]
    ELSE IF ~ a.has_names
    THEN [ok |-> TRUE, raised |-> FALSE, dumped |-> FALSE, stored |-> a.names]
    ELSE IF ~ a.writable
    THEN [ok |-> FALSE, raised |-> FALSE, dumped |-> FALSE, stored |-> a.names]
    ELSE IF a.dump_ok
    THEN [ok |-> TRUE, raised |-> FALSE, dumped |-> TRUE,
          stored |-> translate(a.names)]
    ELSE [ok |-> FALSE, raised |-> FALSE, dumped |-> FALSE, stored |-> a.names]

(* results[key] = value *)
dict_set(d, k, v) == [x \in (DOMAIN d) \cup {k} |-> IF x = k THEN v ELSE d[x]]

(* FeatureNamesFixer().fix_all_models() is called *)
FixAllCall ==
    /\ pc = "idle"
    /\ fix_idx = 0
    /\ pc' = "fix_all"
    /\ fix_idx' = 1
    /\ results' = <<>>
    /\ last' = NoArtifact
    /\ UNCHANGED <<db_instance, db, faulty>>
    /\ UNCHANGED <<schVars, trVars, ingVars, taskVars>>
    /\ UNCHANGED extVars

(* one assignment of the loop body of fix_all_models: r is the outcome of
   the fix_* call on the artifact a found at the path *)
FixStore(a, r) ==
    /\ last' = [id |-> fix_idx, exists |-> a.exists, loads |-> a.loads,
                has_names |-> a.has_names, writable |-> a.writable,
                dump_ok |-> a.dump_ok, names |-> a.names, ok |-> r.ok,
                raised |-> r.raised, dumped |-> r.dumped, stored |-> r.stored]
    /\ IF r.raised
       THEN /\ pc' = "fixed"
            /\ UNCHANGED <<fix_idx, results>>
       ELSE /\ results' = dict_set(results, ResultKeys[fix_idx], r.ok)
            /\ fix_idx' = fix_idx + 1
            /\ UNCHANGED pc
    /\ UNCHANGED <<db_instance, db, faulty>>
    /\ UNCHANGED <<schVars, trVars, ingVars, taskVars>>

(* results[intent + "_model"] = self.fix_model_features(paths['model'], intent) *)
FixModel ==
    /\ pc = "fix_all"
    /\ fix_idx <= Len(ResultKeys)
    /\ fix_idx % 2 = 1
    /\ \E a \in ArtifactFiles : FixStore(a, fix_model_features(a))
    /\ UNCHANGED extVars

(* results[intent + "_scaler"] = self.fix_scaler_features(paths['scaler'], intent) *)
FixScaler ==
    /\ pc = "fix_all"
    /\ fix_idx <= Len(ResultKeys)
    /\ fix_idx % 2 = 0
    /\ \E a \in ArtifactFiles : FixStore(a, fix_scaler_features(a))
    /\ UNCHANGED extVars

(* return results *)
FixAllReturn ==
    /\ pc = "fix_all"
    /\ fix_idx = Len(ResultKeys) + 1
    /\ pc' = "fixed"
    /\ UNCHANGED <<db_instance, db, faulty>>
    /\ UNCHANGED <<schVars, trVars, ingVars, taskVars, fixVars>>
    /\ UNCHANGED extVars

(* ---------------------------------------------------------------------- *)
(* Name translation: the fixer's list comprehension and the ingestor's     *)
(* rename, applied to the same list of names                               *)
(* ---------------------------------------------------------------------- *)
FixerTranslate ==
    /\ pc = "translate"
    /\ "fixer" \notin tr_done
    /\ new_features' = translate(names)
    /\ tr_done' = tr_done \cup {"fixer"}
    /\ UNCHANGED <<pc, db_instance, db, faulty, names, df_columns>>
    /\ UNCHANGED <<schVars, ingVars, taskVars, fixVars>>
    /\ UNCHANGED extVars

IngestConvert ==
    /\ pc = "translate"
    /\ "ingest" \notin tr_done
    /\ df_columns' = [i \in 1..Len(names) |-> convert_column_name(names[i])]
    /\ tr_done' = tr_done \cup {"ingest"}
    /\ UNCHANGED <<pc, db_instance, db, faulty, names, new_features>>
    /\ UNCHANGED <<schVars, ingVars, taskVars, fixVars>>
    /\ UNCHANGED extVars

(* ---------------------------------------------------------------------- *)
(* Initial states                                                          *)
(* ---------------------------------------------------------------------- *)
EmptyDb == [tables |-> {}, indexes |-> {}, telemetry |-> <<>>, txn |-> {},
            pending |-> <<>>]

NoFile == [exists |-> FALSE, readable |-> FALSE, header |-> {}, rows |-> <<>>]

(* no scaler test made yet *)
NoResult == [done |-> FALSE, none |-> TRUE, value |-> <<>>]

StIdle ==
    /\ scaler_file = "missing"
    /\ features_dict = <<>>
    /\ feature_vector = <<>>
    /\ scaled_log = <<>>
    /\ st_result = NoResult

(* the three operators of the DAG, in the order they are declared *)
Tasks == <<"init_database", "fix_model_features", "test_scaler_output">>

TaskIds == { Tasks[i] : i \in 1..Len(Tasks) }

(* a DAG run that does not exist yet *)
NoRun == [state |-> "none",
          ti |-> [t \in TaskIds |-> "none"],
          tries |-> [t \in TaskIds |-> 0]]

DagIdle == dag_runs = [r \in 1..MaxDagRuns |-> NoRun]

(* no facade operation called yet *)
NoCall == [op |-> "none", arg |-> <<>>]

FacIdle ==
    /\ fac_call = NoCall
    /\ fac_rows = <<>>
    /\ fac_raised = FALSE
    /\ fac_failed = FALSE

(* _db_instance = None, no Database constructed *)
SgIdle ==
    /\ sg_obj = 0
    /\ sg_made = 0
    /\ sg_connected = {}
    /\ sg_logged = 0
    /\ sg_got = <<>>

(* no artifact directory under observation *)
TwIdle ==
    /\ disk = <<>>
    /\ tw_runs = 0
    /\ tw_reports = <<>>
    /\ tw_disk0 = <<>>
    /\ tw_disk1 = <<>>

ExtIdle == StIdle /\ DagIdle /\ FacIdle /\ SgIdle /\ TwIdle

SchIdle ==
    /\ stmt = NumStatements + 1
    /\ executed = <<>>
    /\ warned = {}
    /\ rolled = {}
    /\ escaped = FALSE
    /\ sch_runs = 0
    /\ first_end = [tables |-> {}, indexes |-> {}]
    /\ sch_ret = "idle"

TrIdle ==
    /\ names = <<>>
    /\ new_features = <<>>
    /\ df_columns = <<>>
    /\ tr_done = {}

IngIdle ==
    /\ df = <<>>
    /\ rows = <<>>
    /\ sent = 0
    /\ outcome = "none"
    /\ count = 0
    /\ ins_commits = 0
    /\ ins_rollbacks = 0
    /\ before = <<>>
    /\ ing_ret = "idle"

TaskIdle ==
    /\ task_runs = 0
    /\ task_state = "none"
    /\ fatal = "none"
    /\ after_first = [telemetry |-> <<>>, fatal |-> "none"]

FixIdle ==
    /\ fix_idx = 0
    /\ results = <<>>
    /\ last = NoArtifact

(* the table an index is built on *)
IndexTable(i) ==
    index_queries[CHOOSE k \in 1..Len(index_queries) : index_queries[k].obj = i].on

(* schemas a database can hold: an index exists only on an existing table *)
SchemaStates ==
    { [EmptyDb EXCEPT !.tables = T, !.indexes = I] :
        T \in SUBSET TableNames, I \in SUBSET IndexNames }

InitSchema ==
    /\ pc = "idle"
    /\ db_instance = "Database"
    /\ db \in { d \in SchemaStates : \A i \in d.indexes : IndexTable(i) \in d.tables }
    /\ faulty \in { F \in SUBSET (TableNames \cup IndexNames) : Cardinality(F) <= MaxFaulty }
    /\ file = NoFile
    /\ SchIdle /\ TrIdle /\ IngIdle /\ TaskIdle /\ FixIdle /\ ExtIdle

NextSchema == InitDbCall \/ InitDbStep \/ InitDbReturn

SpecSchema == InitSchema /\ [][NextSchema]_vars

Alphabet == {"H", "_"}

NamePool ==
    (DOMAIN feature_mapping) \cup (DOMAIN column_mapping) \cup {Unknown_X}
    \cup UNION { [1..k -> Alphabet] : k \in 1..MaxNameLen }

InitTranslate ==
    /\ pc = "translate"
    /\ db_instance = "None"
    /\ db = EmptyDb
    /\ faulty = {}
    /\ file = NoFile
    /\ names \in UNION { [1..k -> NamePool] : k \in 0..MaxNames }
    /\ new_features = <<>>
    /\ df_columns = <<>>
    /\ tr_done = {}
    /\ SchIdle /\ IngIdle /\ TaskIdle /\ FixIdle /\ ExtIdle

NextTranslate == FixerTranslate \/ IngestConvert

SpecTranslate == InitTranslate /\ [][NextTranslate]_vars

(* a cell that holds a value *)
Value == "v"

(* the header of the cleaned CSV plus a column the pipeline does not know *)
FullHeader == (DOMAIN column_mapping) \cup {Unknown_X}

(* the frames over header H whose rows are complete or have no value in
   the columns N *)
FramesOver(H, N) ==
    UNION { [1..n -> { [c \in H |-> Value],
                       [c \in H |-> IF c \in N THEN "NaN" ELSE Value] }] :
            n \in 0..MaxRows }

(* readable files: up to MaxMissingCols known columns are missing from the
   header, or up to MaxNaN columns have rows without a value *)
CsvFiles(M, N) ==
    { [exists |-> TRUE, readable |-> TRUE, header |-> FullHeader \ M, rows |-> R] :
        R \in FramesOver(FullHeader \ M, N) }

BadFiles ==
    { NoFile, [exists |-> TRUE, readable |-> FALSE, header |-> {}, rows |-> <<>>] }

OldRow == [i \in 1..Len(required_columns) |-> "old"]

InitIngest ==
    /\ pc = "idle"
    /\ db_instance = "Database"
    /\ db \in { EmptyDb,
                [EmptyDb EXCEPT !.tables = TableNames, !.indexes = IndexNames,
                                !.telemetry = <<OldRow>>] }
    /\ faulty = {}
    /\ \/ file \in BadFiles
       \/ \E M \in SUBSET DOMAIN column_mapping :
             /\ Cardinality(M) <= MaxMissingCols
             /\ file \in CsvFiles(M, {})
       \/ \E N \in SUBSET FullHeader :
             /\ Cardinality(N) <= MaxNaN
             /\ file \in CsvFiles({}, N)
    /\ SchIdle /\ TrIdle /\ IngIdle /\ TaskIdle /\ FixIdle /\ ExtIdle

NextIngest ==
    IngestCall \/ ReadCsv \/ BuildRows \/ ExecuteValuesRow \/ InsertCommit
    \/ InsertRowsExcept

SpecIngest == InitIngest /\ [][NextIngest]_vars

(* the files of the scheduled task: absent, unreadable, or complete rows *)
TaskFiles ==
    BadFiles \cup
    { [exists |-> TRUE, readable |-> TRUE, header |-> FullHeader,
       rows |-> [k \in 1..n |-> [c \in FullHeader |-> Value]]] : n \in 0..MaxRows }

InitPipeline ==
    /\ pc = "idle"
    /\ db_instance = "None"
    /\ db \in { EmptyDb,
                [EmptyDb EXCEPT !.tables = TableNames, !.indexes = IndexNames,
                                !.telemetry = <<OldRow>>] }
    /\ faulty \in { {}, {"telemetry"} }
    /\ file \in TaskFiles
    /\ SchIdle /\ TrIdle /\ IngIdle /\ TaskIdle /\ FixIdle /\ ExtIdle

NextPipeline ==
    \/ TaskStart \/ GetDb \/ SetupInitDb \/ InitDbStep \/ InitDbReturn
    \/ CsvExists \/ ReadCsv \/ BuildRows \/ ExecuteValuesRow \/ InsertCommit
    \/ InsertRowsExcept \/ IngestReturn \/ Verify

SpecPipeline == InitPipeline /\ [][NextPipeline]_vars

InitFixer ==
    /\ pc = "idle"
    /\ db_instance = "None"
    /\ db = EmptyDb
    /\ faulty = {}
    /\ file = NoFile
    /\ SchIdle /\ TrIdle /\ IngIdle /\ TaskIdle /\ FixIdle /\ ExtIdle

NextFixer == FixAllCall \/ FixModel \/ FixScaler \/ FixAllReturn

SpecFixer == InitFixer /\ [][NextFixer]_vars

(* ---------------------------------------------------------------------- *)
(* ScalerTester (database_and_model_tools.py)                              *)
(* scaler_file is "missing" (os.path.exists is false), "corrupt"           *)
(* (joblib.load raises), "unfit" (transform raises) or "ok".               *)
(* ---------------------------------------------------------------------- *)

(* self.feature_order *)
feature_order ==
    <<"fuelconsumption", "vibrationlevel", "humidity", "pressure",
      "poweroutput", "operatinghours", "timestamp_epoch", "hour",
      "dayofweek", "month">>

(* np.array([[features_dict.get(f, 0.0) for f in self.feature_order]]) *)
build_feature_vector(fd) ==
    [i \in 1..Len(feature_order) |-> dict_get(fd, feature_order[i], 0)]

(* scaler.transform on one row: an elementwise map that keeps the length *)
scaler_transform(v) == [i \in 1..Len(v) |-> 2 * v[i] + 1]

(* test_scaler_with_real_data: the vector built, the value logged and what
   the call gives back; no path of the function has a return value *)
test_scaler_with_real_data(f, fd) ==
    IF f = "missing" \/ f = "corrupt"
    THEN [vector |-> <<>>, log |-> <<>>, result |-> [done |-> TRUE, none |-> TRUE, value |-> <<>>]]
    ELSE IF f = "unfit"
    THEN [vector |-> build_feature_vector(fd), log |-> <<>>,
          result |-> [done |-> TRUE, none |-> TRUE, value |-> <<>>]]
    ELSE [vector |-> build_feature_vector(fd),
          log |-> scaler_transform(build_feature_vector(fd)),
          result |-> [done |-> TRUE, none |-> TRUE, value |-> <<>>]]

(* ScalerTester().test_scaler_with_real_data(path, features_dict) *)
ScalerTestCall ==
    /\ pc = "idle"
    /\ ~ st_result.done
    /\ LET r == test_scaler_with_real_data(scaler_file, features_dict) IN
         /\ feature_vector' = r.vector
         /\ scaled_log' = r.log
         /\ st_result' = r.result
    /\ pc' = "validated"
    /\ UNCHANGED <<scaler_file, features_dict>>
    /\ UNCHANGED exceptSt

(* the value a feature has when the caller supplies it: its slot number,
   or 11 for a key the tester does not know *)
SuppliedValue(f) ==
    IF \E i \in 1..Len(feature_order) : feature_order[i] = f
    THEN CHOOSE i \in 1..Len(feature_order) : feature_order[i] = f
    ELSE Len(feature_order) + 1

InitScaler ==
    /\ pc = "idle"
    /\ db_instance = "None"
    /\ db = EmptyDb
    /\ faulty = {}
    /\ file = NoFile
    /\ SchIdle /\ TrIdle /\ IngIdle /\ TaskIdle /\ FixIdle
    /\ scaler_file \in {"missing", "corrupt", "unfit", "ok"}
    /\ \E D \in SUBSET ({ feature_order[i] : i \in 1..Len(feature_order) }
                        \cup {"extra"}) :
          features_dict = [f \in D |-> SuppliedValue(f)]
    /\ feature_vector = <<>>
    /\ scaled_log = <<>>
    /\ st_result = NoResult
    /\ DagIdle /\ FacIdle /\ SgIdle /\ TwIdle

NextScaler == ScalerTestCall

SpecScaler == InitScaler /\ [][NextScaler]_vars

(* ---------------------------------------------------------------------- *)
(* The DAG machine_db_pipeline (db_pipeline_dag.py) as the scheduler runs  *)
(* it: a run is created, becomes running when the cap of active runs lets  *)
(* it, and each task instance starts once its upstream tasks succeeded.    *)
(* A task instance is none, running, up_for_retry, success, failed or      *)
(* upstream_failed; a run is none, queued, running, success or failed.     *)
(* ---------------------------------------------------------------------- *)

(* max_active_runs=1 *)
max_active_runs == 1

(* default_args['retries'] *)
retries == 1

upstream_none(t) == {}

(* init_db >> fix_models >> test_scaler *)
upstream(t) ==
    IF t = "fix_model_features" THEN {"init_database"}
    ELSE IF t = "test_scaler_output" THEN {"fix_model_features"}
    ELSE {}

active_runs == { r \in 1..MaxDagRuns : dag_runs[r].state = "running" }

ti_finished(st) == st \in {"success", "failed", "upstream_failed"}

set_ti(r, t, st) ==
    [dag_runs EXCEPT ![r].ti[t] = st]

(* schedule='@daily' or a manual trigger: the next run is created, queued *)
CreateDagRun(r) ==
    /\ pc = "idle"
    /\ dag_runs[r].state = "none"
    /\ \A q \in 1..(r - 1) : dag_runs[q].state # "none"
    /\ dag_runs' = [dag_runs EXCEPT ![r].state = "queued"]
    /\ UNCHANGED <<pc, exceptDag>>

(* a queued run starts when fewer than max_active_runs runs are running *)
StartDagRun(r) ==
    /\ dag_runs[r].state = "queued"
    /\ Cardinality(active_runs) < max_active_runs
    /\ dag_runs' = [dag_runs EXCEPT ![r].state = "running"]
    /\ UNCHANGED <<pc, exceptDag>>

(* a task instance of a running run starts when all its upstream succeeded *)
StartTaskInstance(r, t) ==
    /\ dag_runs[r].state = "running"
    /\ dag_runs[r].ti[t] \in {"none", "up_for_retry"}
    /\ \A u \in upstream(t) : dag_runs[r].ti[u] = "success"
    /\ dag_runs' = [dag_runs EXCEPT ![r].ti[t] = "running",
                                    ![r].tries[t] = @ + 1]
    /\ UNCHANGED <<pc, exceptDag>>

(* the python_callable returns *)
TaskInstanceSucceeds(r, t) ==
    /\ dag_runs[r].ti[t] = "running"
    /\ dag_runs' = set_ti(r, t, "success")
    /\ UNCHANGED <<pc, exceptDag>>

(* the python_callable raises or its worker is lost: retried while tries
   remain, failed after that *)
TaskInstanceFails(r, t) ==
    /\ dag_runs[r].ti[t] = "running"
    /\ dag_runs' = set_ti(r, t, IF dag_runs[r].tries[t] <= retries
                                THEN "up_for_retry" ELSE "failed")
    /\ UNCHANGED <<pc, exceptDag>>

(* a task whose upstream failed is never run *)
MarkUpstreamFailed(r, t) ==
    /\ dag_runs[r].state = "running"
    /\ dag_runs[r].ti[t] = "none"
    /\ \E u \in upstream(t) : dag_runs[r].ti[u] \in {"failed", "upstream_failed"}
    /\ dag_runs' = set_ti(r, t, "upstream_failed")
    /\ UNCHANGED <<pc, exceptDag>>

(* the run ends when every task instance has finished *)
FinishDagRun(r) ==
    /\ dag_runs[r].state = "running"
    /\ \A t \in TaskIds : ti_finished(dag_runs[r].ti[t])
    /\ dag_runs' = [dag_runs EXCEPT ![r].state =
                      IF \A t \in TaskIds : dag_runs[r].ti[t] = "success"
                      THEN "success" ELSE "failed"]
    /\ UNCHANGED <<pc, exceptDag>>

InitDag ==
    /\ pc = "idle"
    /\ db_instance = "None"
    /\ db = EmptyDb
    /\ faulty = {}
    /\ file = NoFile
    /\ SchIdle /\ TrIdle /\ IngIdle /\ TaskIdle /\ FixIdle
    /\ ExtIdle

NextDag ==
    \/ \E r \in 1..MaxDagRuns : CreateDagRun(r)
    \/ \E r \in 1..MaxDagRuns : StartDagRun(r)
    \/ \E r \in 1..MaxDagRuns, t \in TaskIds : StartTaskInstance(r, t)
    \/ \E r \in 1..MaxDagRuns, t \in TaskIds : TaskInstanceSucceeds(r, t)
    \/ \E r \in 1..MaxDagRuns, t \in TaskIds : TaskInstanceFails(r, t)
    \/ \E r \in 1..MaxDagRuns, t \in TaskIds : MarkUpstreamFailed(r, t)
    \/ \E r \in 1..MaxDagRuns : FinishDagRun(r)

SpecDag == InitDag /\ [][NextDag]_vars

(* ---------------------------------------------------------------------- *)
(* Query facade (db.py): reporting operations of Database over telemetry.  *)
(* A telemetry row is a record; a metric column holds <<>> for NULL or     *)
(* <<v>> for the number v.                                                 *)
(* ---------------------------------------------------------------------- *)

(* SELECT DISTINCT ON (machineid) ... FROM telemetry *)
latest_query ==
    [words |-> <<"SELECT","DISTINCT","ON">>, kind |-> "select",
     obj |-> "telemetry", on |-> "telemetry"]

(* SELECT machineid, COUNT ... FROM telemetry GROUP BY machineid *)
stats_query ==
    [words |-> <<"SELECT","MACHINEID","COUNT">>, kind |-> "select",
     obj |-> "telemetry", on |-> "telemetry"]

(* machine ids in their sort order *)
Machines == <<"A", "B", "C">>

(* the rows of machine m among the rows of tbl numbered in K *)
machine_rows(tbl, m, K) == { i \in K : tbl[i].machineid = m }

(* DISTINCT ON (machineid) ... WHERE ... ORDER BY machineid,
   timestamp_epoch DESC, K the rows the WHERE clause keeps: per machine, its
   kept row of greatest timestamp_epoch, the machines in ascending order *)
distinct_on_machineid(tbl, K) ==
    LET ms == SelectSeq(Machines, LAMBDA m : machine_rows(tbl, m, K) # {})
        top(m) == CHOOSE i \in machine_rows(tbl, m, K) :
                     \A j \in machine_rows(tbl, m, K) :
                        tbl[j].timestamp_epoch <= tbl[i].timestamp_epoch
    IN [k \in 1..Len(ms) |-> tbl[top(ms[k])]]

(* sorted(seq, key=..., reverse=...): stable; key[i] is the key of seq[i] *)
sorted(seq, key, reverse) ==
    LET pos(i) == 1 + Cardinality({ j \in 1..Len(seq) :
                        \/ (IF reverse THEN key[j] > key[i] ELSE key[j] < key[i])
                        \/ key[j] = key[i] /\ j < i })
    IN [p \in 1..Len(seq) |-> seq[CHOOSE i \in 1..Len(seq) : pos(i) = p]]

(* key=lambda x: x[<metric>] over a list of selected rows *)
metric_keys(seq) == [i \in 1..Len(seq) |-> seq[i].metric]

(* seq[:limit] for limit >= 0 *)
slice_to(seq, limit) ==
    SubSeq(seq, 1, IF limit < Len(seq) THEN limit ELSE Len(seq))

(* the columns selected by a ranking query: machineid, <column> as metric,
   timestamp_epoch *)
select_metric(tbl, column) ==
    [k \in 1..Len(tbl) |-> [machineid |-> tbl[k].machineid,
                             metric |-> tbl[k][column][1],
                             timestamp_epoch |-> tbl[k].timestamp_epoch]]

(* the body shared by the highest/lowest operations that have no try:
   WHERE <column> IS NOT NULL, sorted(..., reverse=reverse)[:limit];
   a failure of execute_query goes to the caller *)
rank_unguarded(d, bad, column, reverse, limit) ==
    LET r == execute_query(latest_query, d, bad)
        all_machines == select_metric(
            distinct_on_machineid(d.telemetry,
                { i \in 1..Len(d.telemetry) : d.telemetry[i][column] # <<>> }),
            column)
    IN IF r.raised
       THEN [db |-> r.db, rows |-> <<>>, raised |-> TRUE, failed |-> TRUE]
       ELSE [db |-> r.db, raised |-> FALSE, failed |-> FALSE,
             rows |-> slice_to(
                 sorted(all_machines, metric_keys(all_machines), reverse), limit)]

(* get_machines_with_lowest_humidity: WHERE humidity IS NOT NULL AND
   humidity > 0 AND humidity <= 100 AND machineid IS NOT NULL; everything
   inside try/except returning [] *)
get_machines_with_lowest_humidity(d, bad, limit) ==
    LET r == execute_query(latest_query, d, bad)
        all_machines == select_metric(
            distinct_on_machineid(d.telemetry,
                { i \in 1..Len(d.telemetry) :
                    /\ d.telemetry[i].humidity # <<>>
                    /\ d.telemetry[i].humidity[1] > 0
                    /\ d.telemetry[i].humidity[1] <= 100 }),
            "humidity")
    IN IF r.raised
       THEN [db |-> r.db, rows |-> <<>>, raised |-> FALSE, failed |-> TRUE]
       ELSE IF all_machines = <<>>
       THEN [db |-> r.db, rows |-> <<>>, raised |-> FALSE, failed |-> FALSE]
       ELSE [db |-> r.db, raised |-> FALSE, failed |-> FALSE,
             rows |-> slice_to(
                 sorted(all_machines, metric_keys(all_machines), FALSE), limit)]

(* sub in s, for strings as tuples of characters *)
contains(s, sub) ==
    \E i \in 0..(Len(s) - Len(sub)) : SubSeq(s, i + 1, i + Len(sub)) = sub

(* status ILIKE '%f%' *)
ilike(status, f) == contains(str_lower(status), str_lower(f))

(* get_machines_by_status: with a filter, WHERE status ILIKE %filter%; then
   the loop keeping rows with a machineid, a status and (with a filter) the
   lowered filter in the lowered status; everything inside try/except
   returning []. status_filter <<>> stands for None and for '' *)
get_machines_by_status(d, bad, status_filter) ==
    LET r == execute_query(latest_query, d, bad)
        result == distinct_on_machineid(d.telemetry,
                     { i \in 1..Len(d.telemetry) :
                         status_filter # <<>> =>
                            ilike(d.telemetry[i].status, status_filter) })
        valid_machines == SelectSeq(result,
                     LAMBDA machine :
                        /\ machine.status # <<>>
                        /\ status_filter # <<>> =>
                              contains(str_lower(machine.status), str_lower(status_filter)))
    IN IF r.raised
       THEN [db |-> r.db, rows |-> <<>>, raised |-> FALSE, failed |-> TRUE]
       ELSE [db |-> r.db, raised |-> FALSE, failed |-> FALSE,
             rows |-> [k \in 1..Len(valid_machines) |->
                         [machineid |-> valid_machines[k].machineid,
                          status |-> valid_machines[k].status,
                          timestamp_epoch |-> valid_machines[k].timestamp_epoch]]]

RECURSIVE sum_column(_, _, _)
(* SUM(column) over the rows of tbl numbered in S, NULLs skipped *)
sum_column(tbl, S, column) ==
    IF S = {} THEN 0
    ELSE LET i == CHOOSE x \in S : TRUE
         IN (IF tbl[i][column] = <<>> THEN 0 ELSE tbl[i][column][1])
            + sum_column(tbl, S \ {i}, column)

(* one group of GROUP BY machineid: COUNT, AVG(enginetemperature) kept as
   sum and number of non-NULL values, MAX(timestamp_epoch) *)
stats_group(tbl, m) ==
    LET S == machine_rows(tbl, m, 1..Len(tbl))
        N == { i \in S : tbl[i].enginetemperature # <<>> }
    IN [machineid |-> m,
        record_count |-> Cardinality(S),
        sum_temperature |-> sum_column(tbl, S, "enginetemperature"),
        n_temperature |-> Cardinality(N),
        last_update |-> CHOOSE t \in { tbl[i].timestamp_epoch : i \in S } :
                           \A i \in S : tbl[i].timestamp_epoch <= t]

RECURSIVE product(_, _)
(* the product of f over the indexes in S *)
product(f, S) ==
    IF S = {} THEN 1
    ELSE LET i == CHOOSE x \in S : TRUE IN f[i] * product(f, S \ {i})

(* the sort keys of ORDER BY avg_temperature: the averages brought to one
   denominator, a NULL average (no value at all) above every number, which
   is where DESC puts it *)
avg_keys(groups) ==
    LET I == 1..Len(groups)
        n == [i \in I |-> IF groups[i].n_temperature = 0 THEN 1
                          ELSE groups[i].n_temperature]
        D == product(n, I)
        scaled == [i \in I |-> groups[i].sum_temperature * (D \div n[i])]
        top == 1 + product([i \in I |-> 1 + scaled[i]], I)
    IN [i \in I |-> IF groups[i].n_temperature = 0 THEN top ELSE scaled[i]]

(* get_machine_comparison_stats: GROUP BY machineid ORDER BY avg_temperature
   DESC; no try, a failure of execute_query goes to the caller *)
get_machine_comparison_stats(d, bad) ==
    LET r == execute_query(stats_query, d, bad)
        ms == SelectSeq(Machines,
                 LAMBDA m : machine_rows(d.telemetry, m, 1..Len(d.telemetry)) # {})
        groups == [k \in 1..Len(ms) |-> stats_group(d.telemetry, ms[k])]
    IN IF r.raised
       THEN [db |-> r.db, rows |-> <<>>, raised |-> TRUE, failed |-> TRUE]
       ELSE [db |-> r.db, raised |-> FALSE, failed |-> FALSE,
             rows |-> sorted(groups, avg_keys(groups), TRUE)]

(* limits a caller passes: explicit ones and the default 5 *)
Limits == {1, 2, 5}

(* status filters a caller passes: None and 'on' *)
StatusFilters == { <<>>, <<"o", "n">> }

(* a facade operation returns to, or raises at, its caller *)
FacReturn(op, arg, r) ==
    /\ pc = "idle"
    /\ fac_call = NoCall
    /\ fac_call' = [op |-> op, arg |-> arg]
    /\ db' = r.db
    /\ fac_rows' = r.rows
    /\ fac_raised' = r.raised
    /\ fac_failed' = r.failed
    /\ pc' = "reported"
    /\ UNCHANGED exceptFac

GetHighestTemperature ==
    \E limit \in Limits :
        FacReturn("get_machines_with_highest_temperature", <<limit>>,
                  rank_unguarded(db, faulty, "enginetemperature", TRUE, limit))

GetHighestHumidity ==
    \E limit \in Limits :
        FacReturn("get_machines_with_highest_humidity", <<limit>>,
                  rank_unguarded(db, faulty, "humidity", TRUE, limit))

GetHighestVibration ==
    \E limit \in Limits :
        FacReturn("get_machines_with_highest_vibration", <<limit>>,
                  rank_unguarded(db, faulty, "vibrationlevel", TRUE, limit))

GetHighestFuelConsumption ==
    \E limit \in Limits :
        FacReturn("get_machines_with_highest_fuel_consumption", <<limit>>,
                  rank_unguarded(db, faulty, "fuelconsumption", TRUE, limit))

GetLowestTemperature ==
    \E limit \in Limits :
        FacReturn("get_machines_with_lowest_temperature", <<limit>>,
                  rank_unguarded(db, faulty, "enginetemperature", FALSE, limit))

GetLowestHumidity ==
    \E limit \in Limits :
        FacReturn("get_machines_with_lowest_humidity", <<limit>>,
                  get_machines_with_lowest_humidity(db, faulty, limit))

GetLowestVibration ==
    \E limit \in Limits :
        FacReturn("get_machines_with_lowest_vibration", <<limit>>,
                  rank_unguarded(db, faulty, "vibrationlevel", FALSE, limit))

GetLowestFuelConsumption ==
    \E limit \in Limits :
        FacReturn("get_machines_with_lowest_fuel_consumption", <<limit>>,
                  rank_unguarded(db, faulty, "fuelconsumption", FALSE, limit))

GetMachinesByStatus ==
    \E status_filter \in StatusFilters :
        FacReturn("get_machines_by_status", status_filter,
                  get_machines_by_status(db, faulty, status_filter))

GetMachineComparisonStats ==
    FacReturn("get_machine_comparison_stats", <<>>,
              get_machine_comparison_stats(db, faulty))

(* the values a metric column holds: NULL, or a number; 110 is outside the
   range of a humidity *)
MetricCells == { <<>>, <<70>>, <<90>>, <<110>> }

(* the status every reading of a machine carries *)
status_of(m) ==
    IF m = "A" THEN <<"O", "N">> ELSE IF m = "B" THEN <<"o", "f", "f">> ELSE <<>>

(* the reading of machine m taken at time t, its four metrics holding c *)
Reading(m, t, c) ==
    [machineid |-> m, timestamp_epoch |-> t, status |-> status_of(m),
     enginetemperature |-> c, humidity |-> c, vibrationlevel |-> c,
     fuelconsumption |-> c]

InitFacade ==
    /\ pc = "idle"
    /\ db_instance = "Database"
    /\ faulty = {}
    /\ file = NoFile
    /\ SchIdle /\ TrIdle /\ IngIdle /\ TaskIdle /\ FixIdle
    /\ ExtIdle
    /\ \/ db = EmptyDb
       \/ \E n \in 0..MaxReadings :
             \E ms \in [1..n -> { Machines[k] : k \in 1..Len(Machines) }],
                cs \in [1..n -> MetricCells] :
                db = [EmptyDb EXCEPT
                        !.tables = TableNames,
                        !.indexes = IndexNames,
                        !.telemetry = [i \in 1..n |-> Reading(ms[i], i, cs[i])]]

NextFacade ==
    \/ GetHighestTemperature
    \/ GetHighestHumidity
    \/ GetHighestVibration
    \/ GetHighestFuelConsumption
    \/ GetLowestTemperature
    \/ GetLowestHumidity
    \/ GetLowestVibration
    \/ GetLowestFuelConsumption
    \/ GetMachinesByStatus
    \/ GetMachineComparisonStats

SpecFacade == InitFacade /\ [][NextFacade]_vars

(* ---------------------------------------------------------------------- *)
(* get_db (db.py): the module global _db_instance and the Database objects *)
(* constructed for it. Objects are numbered in the order of construction.  *)
(* ---------------------------------------------------------------------- *)

(* Database(): __init__ builds conn_params and calls connect, which logs and
   re-raises when psycopg2.connect fails (connected = FALSE) *)
new_Database(made, conns, logged, connected) ==
    IF connected
    THEN [raised |-> FALSE, obj |-> made + 1, made |-> made + 1,
          conns |-> conns \cup {made + 1}, logged |-> logged]
    ELSE [raised |-> TRUE, obj |-> 0, made |-> made + 1,
          conns |-> conns, logged |-> logged + 1]

(* variant: the test "_db_instance is None" is missing *)
get_db_always_new(inst, obj, made, conns, logged, connected) ==
    LET n == new_Database(made, conns, logged, connected) IN
      IF n.raised
      THEN [inst |-> inst, obj |-> obj, made |-> n.made, conns |-> n.conns,
            logged |-> n.logged, result |-> 0]
      ELSE [inst |-> "Database", obj |-> n.obj, made |-> n.made,
            conns |-> n.conns, logged |-> n.logged, result |-> n.obj]

(* get_db: if _db_instance is None: _db_instance = Database(); the
   assignment does not happen when Database() raises *)
get_db(inst, obj, made, conns, logged, connected) ==
    IF inst = "None"
    THEN LET n == new_Database(made, conns, logged, connected) IN
           IF n.raised
           THEN [inst |-> "None", obj |-> 0, made |-> n.made, conns |-> n.conns,
                 logged |-> n.logged, result |-> 0]
           ELSE [inst |-> "Database", obj |-> n.obj, made |-> n.made,
                 conns |-> n.conns, logged |-> n.logged, result |-> n.obj]
    ELSE [inst |-> inst, obj |-> obj, made |-> made, conns |-> conns,
          logged |-> logged, result |-> obj]

(* the callers of get_db: the two constructors that store it in self.db,
   and a direct call *)
GetDbCallers == {"DataIngestor", "DatabaseInitializer", "get_db"}

(* one call of get_db by caller c *)
GetDbCall(c) ==
    /\ pc = "idle"
    /\ Len(sg_got) < MaxGetDbCalls
    /\ \E connected \in BOOLEAN :
         LET r == get_db(db_instance, sg_obj, sg_made, sg_connected, sg_logged,
                         connected) IN
           /\ db_instance' = r.inst
           /\ sg_obj' = r.obj
           /\ sg_made' = r.made
           /\ sg_connected' = r.conns
           /\ sg_logged' = r.logged
           /\ sg_got' = Append(sg_got, [caller |-> c, result |-> r.result])
    /\ UNCHANGED <<pc, exceptSg>>

InitSingleton ==
    /\ pc = "idle"
    /\ db_instance = "None"
    /\ db = EmptyDb
    /\ faulty = {}
    /\ file = NoFile
    /\ SchIdle /\ TrIdle /\ IngIdle /\ TaskIdle /\ FixIdle
    /\ ExtIdle

NextSingleton == \E c \in GetDbCallers : GetDbCall(c)

SpecSingleton == InitSingleton /\ [][NextSingleton]_vars

(* ---------------------------------------------------------------------- *)
(* fix_all_models run again over the files the run before it left: disk[i] *)
(* is the artifact at the path of ResultKeys[i]. A joblib.dump that fails  *)
(* leaves the file as it was.                                              *)
(* ---------------------------------------------------------------------- *)

(* the fix_* call fix_all_models makes for the i-th path *)
fix_at(i, d) ==
    IF i % 2 = 1 THEN fix_model_features(d[i]) ELSE fix_scaler_features(d[i])

(* fix_all_models over the files d: the files afterwards, whether a fix_*
   call raised out of the loop, and the dict returned *)
fix_all_models(d) ==
    LET raising == { i \in DOMAIN d : fix_at(i, d).raised }
        stop == IF raising = {} THEN Len(d) + 1
                ELSE CHOOSE i \in raising : \A j \in raising : i <= j
    IN [disk |-> [i \in DOMAIN d |->
                    IF i < stop THEN [d[i] EXCEPT !.names = fix_at(i, d).stored]
                    ELSE d[i]],
        raised |-> raising # {},
        results |-> IF raising # {} THEN <<>>
                    ELSE [k \in { ResultKeys[i] : i \in DOMAIN d } |->
                            fix_at(CHOOSE i \in DOMAIN d : ResultKeys[i] = k, d).ok]]

(* FeatureNamesFixer().fix_all_models(), start to end *)
FixAllRun ==
    /\ pc = "idle"
    /\ disk # <<>>
    /\ tw_runs < MaxFixRuns
    /\ LET r == fix_all_models(disk) IN
         /\ disk' = r.disk
         /\ tw_reports' = Append(tw_reports, [raised |-> r.raised, results |-> r.results])
         /\ tw_disk1' = IF tw_runs = 0 THEN r.disk ELSE tw_disk1
    /\ tw_runs' = tw_runs + 1
    /\ UNCHANGED <<pc, tw_disk0, exceptTw>>

(* the model files are all like am, the scaler files all like as *)
InitFixTwice ==
    /\ pc = "idle"
    /\ db_instance = "None"
    /\ db = EmptyDb
    /\ faulty = {}
    /\ file = NoFile
    /\ SchIdle /\ TrIdle /\ IngIdle /\ TaskIdle /\ FixIdle
    /\ StIdle /\ DagIdle /\ FacIdle /\ SgIdle
    /\ \E am \in ArtifactFiles, asc \in ArtifactFiles :
          disk = [i \in 1..Len(ResultKeys) |-> IF i % 2 = 1 THEN am ELSE asc]
    /\ tw_disk0 = disk
    /\ tw_runs = 0
    /\ tw_reports = <<>>
    /\ tw_disk1 = <<>>

NextFixTwice == FixAllRun

SpecFixTwice == InitFixTwice /\ [][NextFixTwice]_vars

(* ---------------------------------------------------------------------- *)
(* Properties                                                              *)
(* ---------------------------------------------------------------------- *)

(* the statements of a finished init_db run that the database refuses:
   rejected outright, or an index on a table that does not exist *)
Refused ==
    { s \in 1..NumStatements :
        \/ Statements[s].obj \in faulty
        \/ Statements[s].kind = "index" /\ Statements[s].on \notin db.tables }

(* C5: init_db attempts each of the 3 table and 6 index statements exactly
   once and in order whatever failed before; a failing statement is rolled
   back and logged as a warning, never leaves init_db, and every statement
   the database accepts is executed and committed. *)
C5_EveryStatementAttempted ==
    /\ escaped = FALSE
    /\ pc = "init_db" => executed = [i \in 1..(stmt - 1) |-> i]
    /\ (pc = "idle" /\ sch_runs >= 1) =>
          /\ executed = [i \in 1..9 |-> i]
          /\ warned = Refused
          /\ rolled = warned
          /\ db.txn = {}
          /\ \A s \in (1..NumStatements) \ Refused :
                Statements[s].obj \in db.tables \cup db.indexes

(* C5 witness: a run has finished in which a statement failed and a later
   statement was nevertheless executed and committed *)
C5_Witness ==
    /\ pc = "idle"
    /\ sch_runs >= 1
    /\ \E s \in warned : \E t \in (s + 1)..NumStatements :
          t \notin warned /\ Statements[t].obj \in db.tables \cup db.indexes

(* C6: every init_db run after the first leaves the same tables and
   indexes as the first run left. *)
C6_SchemaIdempotent ==
    (pc = "idle" /\ sch_runs >= 1) => Schema(db) = first_end

(* C6 witness: a second run has finished on a schema the first run had to
   extend, with a statement refused in both *)
C6_Witness ==
    /\ pc = "idle"
    /\ sch_runs >= 2
    /\ warned # {}
    /\ first_end.tables # {}
    /\ first_end.indexes # {}

(* C10: the fixer's translation maps each name through feature_mapping and
   otherwise lowercases it, gives <<fuelconsumption, unknown_x>> for
   <<FuelConsumption, Unknown_X>>, and agrees with the ingestor's column
   renaming on every list of names. *)
C10_TranslationAgrees ==
    /\ "fixer" \in tr_done =>
          /\ Len(new_features) = Len(names)
          /\ \A i \in 1..Len(names) :
                new_features[i] = IF names[i] \in DOMAIN feature_mapping
                                  THEN feature_mapping[names[i]]
                                  ELSE str_lower(names[i])
          /\ names = <<FuelConsumption, Unknown_X>> =>
                new_features = << str_lower(FuelConsumption),
                                  <<"u","n","k","n","o","w","n","_","x">> >>
    /\ tr_done = {"fixer", "ingest"} => new_features = df_columns

(* C10 witness: both translations have run on the list of the example *)
C10_Witness ==
    /\ tr_done = {"fixer", "ingest"}
    /\ names = <<FuelConsumption, Unknown_X>>
    /\ new_features = df_columns

(* C1: a finished ingest_csv call whose insert failed has rolled back, has
   raised to its caller and has left the telemetry table exactly as it was;
   one that did not fail has committed exactly once and stored every row of
   the batch; no row is stored while the insert is under way. *)
C1_AllOrNothing ==
    /\ pc = "execute_values" => db.telemetry = before
    /\ (pc = "ingested" /\ fatal = "insert") =>
          /\ outcome = "raised"
          /\ ins_rollbacks = 1
          /\ ins_commits = 0
          /\ db.pending = <<>>
          /\ db.telemetry = before
    /\ (pc = "ingested" /\ fatal = "none") =>
          /\ outcome = "returned"
          /\ ins_commits = 1
          /\ ins_rollbacks = 0
          /\ db.pending = <<>>
          /\ count = Len(file.rows)
          /\ db.telemetry = before \o rows

(* C1 witness: the insert failed after the database had taken some but not
   all rows of the batch, on a table that already held a row *)
C1_Witness ==
    /\ pc = "ingested"
    /\ fatal = "insert"
    /\ sent >= 1
    /\ sent < Len(rows)
    /\ before # <<>>

(* the stored value of a cell is null *)
IsNull(v) == v \in {"NaN", "None"}

(* the rows a finished, successful ingest_csv call has stored *)
StoredRow(k) == db.telemetry[Len(before) + k]

(* C2 as stated: every one of the 17 columns of every stored row is
   non-null. *)
C2_Original ==
    (pc = "ingested" /\ outcome = "returned") =>
        \A k \in 1..Len(file.rows) : \A i \in 1..Len(required_columns) :
            ~ IsNull(StoredRow(k)[i])

(* the default the claim tabulates for the column at position i of the
   insert's column list *)
TabulatedDefault(i) ==
    CASE i = 5 -> "75.0"
      [] i = 6 -> "10.0"
      [] i = 7 -> "3.0"
      [] i = 8 -> "65.0"
      [] i = 9 -> "950.0"
      [] i = 10 -> "200.0"
      [] i = 11 -> "0.0"
      [] i = 12 -> "Unknown"

(* C2 amended: for each of the 8 columns with a tabulated default that the
   file's header provides, the stored value is non-null: the source value,
   or the column's default where the source has none.  The 9 other columns
   keep a missing source value as null, and a column missing from the
   header is stored as null in every row. *)
C2_DefaultsFilled ==
    (pc = "ingested" /\ outcome = "returned") =>
        \A k \in 1..Len(file.rows) : \A i \in 1..Len(required_columns) :
            LET src == { h \in file.header :
                           str_lower(h) = required_columns[i] }
            IN  IF src = {}
                THEN StoredRow(k)[i] = "None"
                ELSE LET cell == file.rows[k][CHOOSE h \in src : TRUE]
                     IN  IF cell # "NaN" THEN StoredRow(k)[i] = cell
                         ELSE IF i \in 5..12
                              THEN StoredRow(k)[i] = TabulatedDefault(i)
                              ELSE IsNull(StoredRow(k)[i])

(* C2 witness: a stored row whose humidity was missing in the source and
   holds the default 65.0 *)
C2_Witness ==
    /\ pc = "ingested"
    /\ outcome = "returned"
    /\ \E k \in 1..Len(file.rows) : \E h \in file.header :
          /\ str_lower(h) = required_columns[8]
          /\ file.rows[k][h] = "NaN"
          /\ StoredRow(k)[8] = "65.0"

(* C3 as stated: an invocation of task_init_database that met a fatal
   failure (connection, unreadable file, insert) ends as a failure of the
   task; it never finishes normally. *)
C3_FatalAborts ==
    (pc = "idle" /\ task_state \in {"success", "failed"}
        /\ fatal \in {"connection", "unreadable", "insert"})
    => task_state = "failed"

(* C4 as stated: a second failure-free invocation of task_init_database on
   the same file leaves the telemetry table as the first one left it. *)
C4_TaskIdempotent ==
    (pc = "idle" /\ task_runs >= 2 /\ task_state = "success"
        /\ fatal = "none" /\ after_first.fatal = "none")
    => db.telemetry = after_first.telemetry

(* C7: fix_all_models never raises and handles every registered artifact
   whatever happened to the others: while it runs, the report holds one
   boolean for each artifact handled so far and no earlier entry changes;
   when it returns, the report has exactly 8 entries; a missing file gives
   False for its own entry. *)
C7_FixAllTotal ==
    /\ [](/\ ~ last.raised
          /\ pc = "fix_all" =>
                DOMAIN results = { ResultKeys[i] : i \in 1..(fix_idx - 1) }
          /\ pc = "fixed" =>
                /\ Cardinality(DOMAIN results) = 8
                /\ DOMAIN results = { ResultKeys[i] : i \in 1..Len(ResultKeys) }
                /\ \A k \in DOMAIN results : results[k] \in BOOLEAN
          /\ (last.id >= 1 /\ ~ last.exists) =>
                results[ResultKeys[last.id]] = FALSE)
    /\ [][pc = "fix_all" =>
            \A k \in DOMAIN results :
                k \in DOMAIN results' /\ results'[k] = results[k]]_vars

(* C7 witness: fix_all_models has returned; the last artifact's file was
   missing and reported False while another artifact reported True *)
C7_Witness ==
    /\ pc = "fixed"
    /\ last.id = 8
    /\ ~ last.exists
    /\ results[ResultKeys[8]] = FALSE
    /\ \E k \in DOMAIN results : results[k] = TRUE

(* C8 as stated: an artifact that has a feature-name list, rejects the
   assignment and can be written to disk is reported as success and is
   re-serialized with its list unchanged. *)
C8_ReadOnlyStillSaved ==
    (last.id >= 1 /\ last.exists /\ last.loads /\ last.has_names
        /\ ~ last.writable /\ last.dump_ok)
    => (last.ok /\ last.dumped /\ last.stored = last.names)

(* C9 as stated: an artifact reported as success either has no
   feature-name list or has been re-serialized. *)
C9_SuccessMeansSaved ==
    (last.id >= 1 /\ last.ok) => (~ last.has_names \/ last.dumped)

(* C11 as stated: with an existing, working scaler the call gives back the
   transformed vector, of length 10 when all ten features are supplied, a
   feature missing from the mapping being fed to the transform as 0.0 in
   its slot. *)
C11_ReturnsVector ==
    (pc = "validated" /\ scaler_file = "ok") =>
        /\ \A i \in 1..10 :
              feature_vector[i] = IF feature_order[i] \in DOMAIN features_dict
                                  THEN features_dict[feature_order[i]] ELSE 0
        /\ ~ st_result.none
        /\ Len(st_result.value) = 10
        /\ st_result.value = scaled_log

(* C12: in every run the three steps go in the order schema+ingest, metadata
   fix, scaler validation, a step having started only if the step before it
   has succeeded, so no two steps of a run are in progress together; and at
   most one run is running at any time. *)
C12_StrictSequence ==
    /\ \A r \in 1..MaxDagRuns :
          /\ dag_runs[r].ti["fix_model_features"] \in {"running", "up_for_retry", "success", "failed"}
                => dag_runs[r].ti["init_database"] = "success"
          /\ dag_runs[r].ti["test_scaler_output"] \in {"running", "up_for_retry", "success", "failed"}
                => dag_runs[r].ti["fix_model_features"] = "success"
          /\ Cardinality({ t \in TaskIds : dag_runs[r].ti[t] = "running" }) <= 1
          /\ dag_runs[r].state \in {"none", "queued"}
                => \A t \in TaskIds : dag_runs[r].ti[t] = "none"
    /\ Cardinality({ r \in 1..MaxDagRuns : dag_runs[r].state = "running" }) <= 1

(* the last step of one run is in progress while the next run waits *)
C12_Witness ==
    \E r, q \in 1..MaxDagRuns :
        /\ dag_runs[r].state = "running"
        /\ dag_runs[r].ti["test_scaler_output"] = "running"
        /\ dag_runs[q].state = "queued"

(* C13 as stated: no operation of the query facade raises to its caller;
   when the underlying query fails the operation returns an empty list. *)
C13_FacadeNeverRaises ==
    pc = "reported" =>
        /\ ~ fac_raised
        /\ fac_failed => fac_rows = <<>>

RankingOps ==
    { "get_machines_with_highest_temperature", "get_machines_with_highest_humidity",
      "get_machines_with_highest_vibration", "get_machines_with_highest_fuel_consumption",
      "get_machines_with_lowest_temperature", "get_machines_with_lowest_humidity",
      "get_machines_with_lowest_vibration", "get_machines_with_lowest_fuel_consumption" }

HighestOps ==
    { "get_machines_with_highest_temperature", "get_machines_with_highest_humidity",
      "get_machines_with_highest_vibration", "get_machines_with_highest_fuel_consumption" }

ColumnOf(op) ==
    IF op \in {"get_machines_with_highest_temperature", "get_machines_with_lowest_temperature"}
    THEN "enginetemperature"
    ELSE IF op \in {"get_machines_with_highest_humidity", "get_machines_with_lowest_humidity"}
    THEN "humidity"
    ELSE IF op \in {"get_machines_with_highest_vibration", "get_machines_with_lowest_vibration"}
    THEN "vibrationlevel"
    ELSE "fuelconsumption"

(* the rows of telemetry that are the most recent reading of their machine
   among the readings that have the metric *)
LatestWith(column) ==
    { i \in 1..Len(db.telemetry) :
        /\ db.telemetry[i][column] # <<>>
        /\ \A j \in 1..Len(db.telemetry) :
              (/\ db.telemetry[j].machineid = db.telemetry[i].machineid
               /\ db.telemetry[j][column] # <<>>)
              => db.telemetry[j].timestamp_epoch <= db.telemetry[i].timestamp_epoch }

(* x is at least as good as y for the operation *)
NoWorse(op, x, y) == IF op \in HighestOps THEN x >= y ELSE x <= y

(* what a ranking operation has to return: one entry per machine, each the
   most recent reading of its machine, in the order of the metric, the
   first limit of them *)
RankedLatest(op, limit, res) ==
    LET column == ColumnOf(op)
        L == LatestWith(column)
    IN /\ Len(res) = (IF limit < Cardinality(L) THEN limit ELSE Cardinality(L))
       /\ \A k \in 1..Len(res) :
             \E i \in L : /\ db.telemetry[i].machineid = res[k].machineid
                          /\ db.telemetry[i].timestamp_epoch = res[k].timestamp_epoch
                          /\ db.telemetry[i][column][1] = res[k].metric
       /\ \A k, l \in 1..Len(res) :
             k < l => /\ res[k].machineid # res[l].machineid
                      /\ NoWorse(op, res[k].metric, res[l].metric)
       /\ \A i \in L :
             (\A k \in 1..Len(res) : res[k].machineid # db.telemetry[i].machineid)
             => \A k \in 1..Len(res) :
                   NoWorse(op, res[k].metric, db.telemetry[i][column][1])

(* C14 as stated: each of the eight highest/lowest operations returns the
   first limit of the machines' most recent readings ordered by the metric,
   descending for highest and ascending for lowest. *)
C14_RankedLatestUniform ==
    (pc = "reported" /\ fac_call.op \in RankingOps /\ ~ fac_failed) =>
        RankedLatest(fac_call.op, fac_call.arg[1], fac_rows)

(* C15: over any sequence of get_db calls at most one connect ever succeeds,
   every call that returns gets that one connected object, and a call whose
   connect fails logs the error, raises and leaves no instance behind: while
   no connect has succeeded the singleton stays unset, and once it is set no
   call fails. *)
C15_SingleConnection ==
    /\ Cardinality(sg_connected) <= 1
    /\ \A i \in 1..Len(sg_got) :
          sg_got[i].result # 0 =>
             /\ sg_got[i].result \in sg_connected
             /\ \A j \in i..Len(sg_got) : sg_got[j].result = sg_got[i].result
    /\ db_instance = "None" <=> sg_connected = {}
    /\ db_instance = "None" <=> sg_obj = 0
    /\ db_instance # "None" => sg_obj \in sg_connected
    /\ sg_logged = Cardinality({ i \in 1..Len(sg_got) : sg_got[i].result = 0 })

(* a call failed to connect, the next one connected and a third caller got
   the object of the second *)
C15_Witness ==
    /\ Len(sg_got) >= 3
    /\ sg_got[1].result = 0
    /\ sg_got[2].result # 0
    /\ sg_got[3].result = sg_got[2].result
    /\ sg_got[3].caller # sg_got[2].caller

(* C16: a run of fix_all_models that follows another run, nothing else having
   touched the files, leaves every artifact's stored feature names as the
   first run left them and returns the report the first run returned. *)
C16_FixAllIdempotent ==
    tw_runs >= 2 =>
        /\ disk = tw_disk1
        /\ \A k \in 2..tw_runs : tw_reports[k] = tw_reports[1]

(* two runs were made and the first one rewrote the names of a model file
   and of a scaler file *)
C16_Witness ==
    /\ tw_runs >= 2
    /\ \E i, j \in DOMAIN disk :
          /\ i % 2 = 1 /\ j % 2 = 0
          /\ tw_disk0[i].names # tw_disk1[i].names
          /\ tw_disk0[j].names # tw_disk1[j].names

====
